---- MODULE Spec2Model ----
(***************************************************************************)
(* usbcam.h: a memory-mapped V4L2 capture session with a drain-to-latest   *)
(* frame lock.  The module's statics, the four public operations and the   *)
(* helper usbcam_ioctl are modelled step by step (one step per primitive   *)
(* call), next to the device they talk to: the open handle, the mapped     *)
(* regions and the driver's incoming and outgoing buffer queues.           *)
(***************************************************************************)
EXTENDS Integers, Sequences, FiniteSets, TLC

\* ------------------------------------------------------------------ bounds
\* Largest buffer count a caller requests and the driver grants.
MaxBuffers == 2
\* Number of frames the driver completes in one behaviour.
MaxClock == 3
\* ------------------------------------------------------- program constants
usbcam_max_buffers == 128

\* ---------------------------------------------------------------- helpers
Slots == 0 .. (MaxBuffers - 1)
\* what mmap can hand out: one address more than one pool needs
Addrs == 1 .. (MaxBuffers + 1)
\* mmap(NULL, ...): the kernel picks the place; here the lowest free address
FreeAddr(m) == CHOOSE a \in Addrs \ m : \A b \in Addrs \ m : a <= b
\* image sizes (bytes) the driver may settle on in VIDIOC_S_FMT
SizeImages == {1, 2}
MAP_FAILED == -1
\* v4l2_open: -1 on failure, otherwise the (lowest free) descriptor
DeviceFd == 3
\* buffer counts a caller may pass: 0 and 129 are the two invalid ones
ReqBuffers == (0 .. MaxBuffers) \cup {usbcam_max_buffers + 1}
\* what a primitive call answers: success, EINTR/EAGAIN, any other error
Outcomes == {"ok", "retry", "fail"}
\* v4l2_buffer, the fields the module reads: static usbcam_dqbuf = {0}, buf = {0}
ZeroBuf == [index |-> 0, bytesused |-> 0, timestamp |-> 0]
NoFrame == [data |-> 0, size |-> 0, timestamp |-> 0]
SeqToSet(s) == {s[k] : k \in 1 .. Len(s)}
Indices(q) == {q[k].index : k \in 1 .. Len(q)}

VARIABLES
    \* the module's statics (usbcam.h:75-83)
    usbcam_has_mmap, usbcam_has_dqbuf, usbcam_has_fd, usbcam_has_stream,
    usbcam_fd, usbcam_buffers, usbcam_buffer_start, usbcam_buffer_length,
    usbcam_dqbuf,
    \* control: position in the running operation, who called usbcam_cleanup
    pc, caller,
    \* arguments and locals: opt.buffers, loop index i, buf and r of usbcam_lock,
    \* whether the timestamp argument is null, the frame handed to the caller
    opt, i, buf, r, tsArg, out,
    \* the device: open handle, mapped regions, driver buffer pool and queues
    fdOpen, mapped, drvCount, drvStream, devLen, inQ, doneQ, deq, clock,
    \* history: running operation, last step and its primitive call,
    \* completed frames at the start of usbcam_lock, completions during it,
    \* buffers the running usbcam_lock or usbcam_cleanup requeued,
    \* buffers usbcam_unlock gave back since streaming began
    cur, last, pending, fresh, requeued, released

flags == <<usbcam_has_mmap, usbcam_has_dqbuf, usbcam_has_fd, usbcam_has_stream>>
store == <<usbcam_fd, usbcam_buffers, usbcam_buffer_start, usbcam_buffer_length,
           usbcam_dqbuf>>
locals == <<opt, i, buf, r, tsArg, out>>
device == <<fdOpen, mapped, drvCount, drvStream, devLen, inQ, doneQ, deq, clock>>
history == <<pending, fresh, requeued>>
vars == <<flags, store, pc, caller, locals, device, cur, last, history, released>>

Step(act, prim, res) == [act |-> act, prim |-> prim, res |-> res]

\* a call starts with no frame in the caller's hands and an empty call history
NewCall == /\ out' = NoFrame
           /\ pending' = <<>> /\ fresh' = FALSE /\ requeued' = <<>>
           /\ UNCHANGED released

\* the call history keeps the first MaxClock entries: all there are while the
\* driver completes at most MaxClock frames
Record(h, x) == IF Len(h) < MaxClock THEN Append(h, x) ELSE h

LockPcs == {"lock_dqbuf", "lock_select", "lock_qbuf", "lock_dqbuf2", "lock_return"}

Init ==
    /\ usbcam_has_mmap = 0 /\ usbcam_has_dqbuf = 0
    /\ usbcam_has_fd = 0 /\ usbcam_has_stream = 0
    /\ usbcam_fd = 0 /\ usbcam_buffers = 0
    /\ usbcam_buffer_start = [k \in Slots |-> 0]
    /\ usbcam_buffer_length = [k \in Slots |-> 0]
    /\ usbcam_dqbuf = ZeroBuf
    /\ pc = "idle" /\ caller = "user"
    /\ opt = 0 /\ i = 0 /\ buf = ZeroBuf /\ r = 0 /\ tsArg = "valid" /\ out = NoFrame
    /\ fdOpen = FALSE /\ mapped = {} /\ drvCount = 0 /\ drvStream = FALSE
    /\ devLen = 0 /\ inQ = <<>> /\ doneQ = <<>> /\ deq = {} /\ clock = 0
    /\ cur = "none" /\ last = Step("none", "none", "ok")
    /\ pending = <<>> /\ fresh = FALSE /\ requeued = <<>> /\ released = {}

\* ------------------------------------------------------------- the driver
\* VIDIOC_QBUF succeeds on a buffer of the pool that the driver does not hold
CanQbuf(idx) == fdOpen /\ idx \in 0 .. (drvCount - 1) /\ idx \notin SeqToSet(inQ)
                /\ idx \notin Indices(doneQ)
\* VIDIOC_DQBUF (blocking descriptor) returns once a completed buffer is waiting
CanDqbuf == fdOpen /\ drvStream /\ doneQ # <<>>
\* select() with a zero timeout: 1 when a completed buffer is waiting, else 0
Readable == IF doneQ # <<>> THEN 1 ELSE 0

\* The driver fills the oldest queued buffer and moves it to the outgoing queue.
\* The capture time never runs backwards, and two frames may carry the same one:
\* the k-th completion is stamped k - 1 or k.
DriverComplete ==
    /\ pc \notin {"exit", "crash"}
    /\ drvStream /\ inQ # <<>> /\ clock < MaxClock
    /\ \E used \in 1 .. devLen, stamp \in {clock, clock + 1} :
          doneQ' = Append(doneQ, [index |-> Head(inQ), bytesused |-> used,
                                  timestamp |-> stamp])
    /\ inQ' = Tail(inQ)
    /\ clock' = clock + 1
    /\ fresh' = (fresh \/ pc \in LockPcs)
    /\ last' = Step("DriverComplete", "none", "ok")
    /\ UNCHANGED <<flags, store, pc, caller, locals, cur, pending, requeued, released,
                   fdOpen, mapped, drvCount, drvStream, devLen, deq>>

\* ------------------------------------------------ exits shared by all steps
\* exit(EXIT_FAILURE) from usbcam_assert or usbcam_ioctl: nothing else changes
Exit(act, prim, res) ==
    /\ pc' = "exit"
    /\ last' = Step(act, prim, res)
    /\ UNCHANGED <<flags, store, caller, locals, device, cur, history, released>>

\* v4l2_ioctl answered EINTR or EAGAIN: usbcam_ioctl calls it again
Retry(act, prim) ==
    /\ last' = Step(act, prim, "retry")
    /\ UNCHANGED <<flags, store, pc, caller, locals, device, cur, history, released>>


\* the requests passed to usbcam_ioctl
ReqNames == {"S_FMT", "REQBUFS", "QUERYBUF", "STREAMON", "STREAMOFF", "QBUF", "DQBUF"}

\* usbcam_ioctl(request, arg): fatal when the device is not open, the request is
\* repeated on EINTR/EAGAIN, any other error is fatal, otherwise Done happens
usbcam_ioctl(act, request, Done) ==
    IF usbcam_has_fd = 0
    THEN Exit(act, "none", "assert")
    ELSE \/ Retry(act, request)
         \/ Exit(act, request, "fail")
         \/ Done

\* the driver's side of a successful VIDIOC_QBUF of buffer idx
DrvQbuf(idx) ==
    /\ CanQbuf(idx)
    /\ inQ' = Append(inQ, idx)
    /\ deq' = deq \ {idx}
    /\ UNCHANGED <<fdOpen, mapped, drvCount, drvStream, devLen, doneQ, clock>>

\* the driver's side of a successful VIDIOC_DQBUF: the oldest completed buffer
DrvDqbuf ==
    /\ CanDqbuf
    /\ buf' = Head(doneQ)
    /\ doneQ' = Tail(doneQ)
    /\ deq' = deq \cup {Head(doneQ).index}
    /\ UNCHANGED <<fdOpen, mapped, drvCount, drvStream, devLen, inQ, clock>>

\* ---------------------------------------------------------- usbcam_cleanup
CallCleanup ==
    /\ pc = "idle"
    /\ pc' = "cleanup_dqbuf" /\ caller' = "user" /\ cur' = "cleanup"
    /\ last' = Step("CallCleanup", "none", "ok")
    /\ NewCall
    /\ UNCHANGED <<flags, store, opt, i, buf, r, tsArg, device>>

\* if (usbcam_has_dqbuf) { usbcam_ioctl(VIDIOC_QBUF, &usbcam_dqbuf); ... = 0; }
CleanupDqbuf ==
    /\ pc = "cleanup_dqbuf"
    /\ IF usbcam_has_dqbuf = 1
       THEN usbcam_ioctl("CleanupDqbuf", "QBUF",
                /\ DrvQbuf(usbcam_dqbuf.index)
                /\ usbcam_has_dqbuf' = 0
                /\ requeued' = Record(requeued, usbcam_dqbuf.index)
                /\ pc' = "cleanup_mmap"
                /\ last' = Step("CleanupDqbuf", "QBUF", "ok")
                /\ UNCHANGED <<usbcam_has_mmap, usbcam_has_fd, usbcam_has_stream,
                               store, caller, locals, cur, pending, fresh, released>>)
       ELSE /\ pc' = "cleanup_mmap"
            /\ last' = Step("CleanupDqbuf", "none", "ok")
            /\ UNCHANGED <<flags, store, caller, locals, device, cur, history, released>>

\* a faulty variant: the pool is unmapped without looking at usbcam_has_mmap
CleanupMmapAlways ==
    /\ pc = "cleanup_mmap"
    /\ pc' = "cleanup_stream"
    /\ mapped' = mapped \ {usbcam_buffer_start[k] : k \in 0 .. (usbcam_buffers - 1)}
    /\ usbcam_has_mmap' = 0
    /\ last' = Step("CleanupMmap", "munmap", "ok")
    /\ UNCHANGED <<usbcam_has_dqbuf, usbcam_has_fd, usbcam_has_stream>>
    /\ UNCHANGED <<store, caller, locals, cur, history, released,
                   fdOpen, drvCount, drvStream, devLen, inQ, doneQ, deq, clock>>

\* if (usbcam_has_mmap) { for (i < usbcam_buffers) munmap(start[i], length[i]); ... = 0; }
CleanupMmap ==
    /\ pc = "cleanup_mmap"
    /\ pc' = "cleanup_stream"
    /\ IF usbcam_has_mmap = 1
       THEN /\ mapped' = mapped \ {usbcam_buffer_start[k] : k \in 0 .. (usbcam_buffers - 1)}
            /\ usbcam_has_mmap' = 0
            /\ last' = Step("CleanupMmap", "munmap", "ok")
            /\ UNCHANGED <<usbcam_has_dqbuf, usbcam_has_fd, usbcam_has_stream>>
       ELSE /\ last' = Step("CleanupMmap", "none", "ok")
            /\ UNCHANGED <<flags, mapped>>
    /\ UNCHANGED <<store, caller, locals, cur, history, released,
                   fdOpen, drvCount, drvStream, devLen, inQ, doneQ, deq, clock>>

\* a faulty variant: streaming is disabled but usbcam_has_stream stays set
CleanupStreamKeepFlag ==
    /\ pc = "cleanup_stream"
    /\ IF usbcam_has_stream = 1
       THEN usbcam_ioctl("CleanupStream", "STREAMOFF",
                /\ drvStream' = FALSE /\ inQ' = <<>> /\ doneQ' = <<>> /\ deq' = {}
                /\ released' = {}
                /\ pc' = "cleanup_fd"
                /\ last' = Step("CleanupStream", "STREAMOFF", "ok")
                /\ UNCHANGED <<flags, store, caller, locals, cur, history,
                               fdOpen, mapped, drvCount, devLen, clock>>)
       ELSE /\ pc' = "cleanup_fd"
            /\ last' = Step("CleanupStream", "none", "ok")
            /\ UNCHANGED <<flags, store, caller, locals, device, cur, history, released>>

\* if (usbcam_has_stream) { usbcam_ioctl(VIDIOC_STREAMOFF, &type); ... = 0; }
\* STREAMOFF empties both driver queues; every buffer is back in the dequeued state
CleanupStream ==
    /\ pc = "cleanup_stream"
    /\ IF usbcam_has_stream = 1
       THEN usbcam_ioctl("CleanupStream", "STREAMOFF",
                /\ drvStream' = FALSE /\ inQ' = <<>> /\ doneQ' = <<>> /\ deq' = {}
                /\ usbcam_has_stream' = 0
                /\ released' = {}
                /\ pc' = "cleanup_fd"
                /\ last' = Step("CleanupStream", "STREAMOFF", "ok")
                /\ UNCHANGED <<usbcam_has_mmap, usbcam_has_dqbuf, usbcam_has_fd,
                               store, caller, locals, cur, history,
                               fdOpen, mapped, drvCount, devLen, clock>>)
       ELSE /\ pc' = "cleanup_fd"
            /\ last' = Step("CleanupStream", "none", "ok")
            /\ UNCHANGED <<flags, store, caller, locals, device, cur, history, released>>

\* where usbcam_cleanup returns to: into usbcam_init, to the program, or, when it
\* ran as an exit handler, nowhere: the process is gone
AfterCleanup ==
    IF caller = "init" THEN "init_assert"
    ELSE IF caller = "atexit" THEN "gone" ELSE "idle"

\* a faulty variant: the descriptor is closed whether or not one is open
CleanupFdAlways ==
    /\ pc = "cleanup_fd"
    /\ pc' = AfterCleanup
    /\ fdOpen' = FALSE /\ drvCount' = 0 /\ drvStream' = FALSE
    /\ inQ' = <<>> /\ doneQ' = <<>> /\ deq' = {}
    /\ usbcam_has_fd' = 0
    /\ last' = Step("CleanupFd", "close", "ok")
    /\ UNCHANGED <<usbcam_has_mmap, usbcam_has_dqbuf, usbcam_has_stream,
                   mapped, devLen, clock>>
    /\ UNCHANGED <<store, caller, locals, cur, history, released>>

\* a faulty variant: the flag is cleared but the descriptor stays open
CleanupFdLeak ==
    /\ pc = "cleanup_fd"
    /\ pc' = AfterCleanup
    /\ usbcam_has_fd' = 0
    /\ last' = Step("CleanupFd", "none", "ok")
    /\ UNCHANGED <<usbcam_has_mmap, usbcam_has_dqbuf, usbcam_has_stream,
                   store, caller, locals, device, cur, history, released>>

\* if (usbcam_has_fd) { close(usbcam_fd); usbcam_has_fd = 0; }  and return
CleanupFd ==
    /\ pc = "cleanup_fd"
    /\ pc' = AfterCleanup
    /\ IF usbcam_has_fd = 1
       THEN /\ fdOpen' = FALSE /\ drvCount' = 0 /\ drvStream' = FALSE
            /\ inQ' = <<>> /\ doneQ' = <<>> /\ deq' = {}
            /\ usbcam_has_fd' = 0
            /\ last' = Step("CleanupFd", "close", "ok")
            /\ UNCHANGED <<usbcam_has_mmap, usbcam_has_dqbuf, usbcam_has_stream,
                           mapped, devLen, clock>>
       ELSE /\ last' = Step("CleanupFd", "none", "ok")
            /\ UNCHANGED <<flags, device>>
    /\ UNCHANGED <<store, caller, locals, cur, history, released>>

\* ------------------------------------------------------------- usbcam_init
\* a faulty variant: usbcam_init without the leading usbcam_cleanup()
CallInitNoCleanup(n) ==
    /\ pc = "idle"
    /\ pc' = "init_assert" /\ caller' = "init" /\ cur' = "init" /\ opt' = n
    /\ last' = Step("CallInit", "none", "ok")
    /\ NewCall
    /\ UNCHANGED <<flags, store, i, buf, r, tsArg, device>>

\* usbcam_init(opt): usbcam_cleanup() first, then the rest of the function
CallInit(n) ==
    /\ pc = "idle"
    /\ pc' = "cleanup_dqbuf" /\ caller' = "init" /\ cur' = "init" /\ opt' = n
    /\ last' = Step("CallInit", "none", "ok")
    /\ NewCall
    /\ UNCHANGED <<flags, store, i, buf, r, tsArg, device>>

\* usbcam_assert(opt.buffers <= usbcam_max_buffers); usbcam_assert(opt.buffers > 0)
InitAssert ==
    /\ pc = "init_assert"
    /\ IF opt <= usbcam_max_buffers /\ opt > 0
       THEN /\ pc' = "init_open"
            /\ last' = Step("InitAssert", "none", "ok")
            /\ UNCHANGED <<flags, store, caller, locals, device, cur, history, released>>
       ELSE Exit("InitAssert", "none", "assert")

\* usbcam_fd = v4l2_open(...); usbcam_assert(usbcam_fd >= 0); usbcam_has_fd = 1
\* (one call: an interrupted open is as fatal as any other failure)
InitOpen ==
    /\ pc = "init_open"
    /\ \E res \in Outcomes :
          /\ last' = Step("InitOpen", "open", res)
          /\ IF res = "ok"
             THEN /\ usbcam_fd' = DeviceFd /\ usbcam_has_fd' = 1 /\ fdOpen' = TRUE
                  /\ pc' = "init_sfmt"
             ELSE /\ usbcam_fd' = -1 /\ pc' = "exit"
                  /\ UNCHANGED <<usbcam_has_fd, fdOpen>>
    /\ UNCHANGED <<usbcam_has_mmap, usbcam_has_dqbuf, usbcam_has_stream,
                   usbcam_buffers, usbcam_buffer_start, usbcam_buffer_length,
                   usbcam_dqbuf, caller, locals, cur, history, released,
                   mapped, drvCount, drvStream, devLen, inQ, doneQ, deq, clock>>

\* usbcam_ioctl(VIDIOC_S_FMT, &fmt) and the three asserts on what the driver chose;
\* the driver fixes the image size, hence the length of every buffer
InitSfmt ==
    /\ pc = "init_sfmt"
    /\ usbcam_ioctl("InitSfmt", "S_FMT",
          \E len \in SizeImages, same \in BOOLEAN :
             /\ devLen' = len
             /\ pc' = IF same THEN "init_reqbufs" ELSE "exit"
             /\ last' = Step("InitSfmt", "S_FMT", IF same THEN "ok" ELSE "assert")
             /\ UNCHANGED <<flags, store, caller, locals, cur, history, released,
                            fdOpen, mapped, drvCount, drvStream, inQ, doneQ, deq, clock>>)

\* usbcam_ioctl(VIDIOC_REQBUFS, &request); usbcam_assert(request.count == opt.buffers)
InitReqbufs ==
    /\ pc = "init_reqbufs"
    /\ usbcam_ioctl("InitReqbufs", "REQBUFS",
          \E granted \in 1 .. MaxBuffers :
             /\ drvCount' = granted
             /\ pc' = IF granted = opt THEN "init_querybuf" ELSE "exit"
             /\ last' = Step("InitReqbufs", "REQBUFS",
                             IF granted = opt THEN "ok" ELSE "assert")
             /\ i' = 0
             /\ UNCHANGED <<flags, store, caller, opt, buf, r, tsArg, out, cur, history, released,
                            fdOpen, mapped, devLen, drvStream, inQ, doneQ, deq, clock>>)

\* usbcam_ioctl(VIDIOC_QUERYBUF, &info); usbcam_buffer_length[i] = info.length
InitQuerybuf ==
    /\ pc = "init_querybuf"
    /\ usbcam_ioctl("InitQuerybuf", "QUERYBUF",
          /\ i < drvCount
          /\ usbcam_buffer_length' = [usbcam_buffer_length EXCEPT ![i] = devLen]
          /\ pc' = "init_mmap"
          /\ last' = Step("InitQuerybuf", "QUERYBUF", "ok")
          /\ UNCHANGED <<flags, usbcam_fd, usbcam_buffers, usbcam_buffer_start,
                         usbcam_dqbuf, caller, locals, device, cur, history, released>>)

\* usbcam_buffer_start[i] = mmap(...); usbcam_assert(... != MAP_FAILED); i++;
\* after the last one: usbcam_buffers = opt.buffers; usbcam_has_mmap = 1
\* (one call: a would-block mmap is as fatal as any other failure)
InitMmap ==
    /\ pc = "init_mmap"
    /\ \E res \in Outcomes :
          /\ last' = Step("InitMmap", "mmap", res)
          /\ IF res = "ok"
             THEN /\ Addrs \ mapped # {}
                  /\ usbcam_buffer_start' =
                        [usbcam_buffer_start EXCEPT ![i] = FreeAddr(mapped)]
                  /\ mapped' = mapped \cup {FreeAddr(mapped)}
                  /\ i' = i + 1
                  /\ IF i + 1 < opt
                     THEN /\ pc' = "init_querybuf"
                          /\ UNCHANGED <<usbcam_buffers, usbcam_has_mmap>>
                     ELSE /\ pc' = "init_streamon"
                          /\ usbcam_buffers' = opt
                          /\ usbcam_has_mmap' = 1
             ELSE /\ usbcam_buffer_start' = [usbcam_buffer_start EXCEPT ![i] = MAP_FAILED]
                  /\ pc' = "exit"
                  /\ UNCHANGED <<mapped, i, usbcam_buffers, usbcam_has_mmap>>
    /\ UNCHANGED <<usbcam_has_dqbuf, usbcam_has_fd, usbcam_has_stream,
                   usbcam_fd, usbcam_buffer_length, usbcam_dqbuf,
                   caller, opt, buf, r, tsArg, out, cur, history, released,
                   fdOpen, drvCount, drvStream, devLen, inQ, doneQ, deq, clock>>

\* usbcam_ioctl(VIDIOC_STREAMON, &type); usbcam_has_stream = 1
InitStreamon ==
    /\ pc = "init_streamon"
    /\ usbcam_ioctl("InitStreamon", "STREAMON",
          /\ drvStream' = TRUE
          /\ usbcam_has_stream' = 1
          /\ i' = 0
          /\ pc' = "init_qbuf"
          /\ last' = Step("InitStreamon", "STREAMON", "ok")
          /\ UNCHANGED <<usbcam_has_mmap, usbcam_has_dqbuf, usbcam_has_fd, store,
                         caller, opt, buf, r, tsArg, out, cur, history, released,
                         fdOpen, mapped, drvCount, devLen, inQ, doneQ, deq, clock>>)

\* for (i < opt.buffers) usbcam_ioctl(VIDIOC_QBUF, &info) with info.index = i
InitQbuf ==
    /\ pc = "init_qbuf"
    /\ usbcam_ioctl("InitQbuf", "QBUF",
          /\ DrvQbuf(i)
          /\ i' = IF i + 1 < opt THEN i + 1 ELSE 0
          /\ pc' = IF i + 1 < opt THEN "init_qbuf" ELSE "idle"
          /\ last' = Step("InitQbuf", "QBUF", "ok")
          /\ UNCHANGED <<flags, store, caller, opt, buf, r, tsArg, out, cur, history, released>>)

\* ----------------------------------------------------------- usbcam_unlock
\* a faulty variant: the buffer is requeued whatever usbcam_has_dqbuf says
CallUnlockAlways ==
    /\ pc = "idle"
    /\ cur' = "unlock"
    /\ pc' = "unlock_qbuf"
    /\ last' = Step("CallUnlock", "none", "ok")
    /\ NewCall
    /\ UNCHANGED <<flags, store, caller, opt, i, buf, r, tsArg, device>>

\* if (usbcam_has_dqbuf) ... : nothing to do when no frame is locked
CallUnlock ==
    /\ pc = "idle"
    /\ cur' = "unlock"
    /\ pc' = IF usbcam_has_dqbuf = 1 THEN "unlock_qbuf" ELSE "idle"
    /\ last' = Step("CallUnlock", "none", "ok")
    /\ NewCall
    /\ UNCHANGED <<flags, store, caller, opt, i, buf, r, tsArg, device>>

\* a faulty variant: the lock is cleared but the buffer never goes back to the driver
UnlockQbufForget ==
    /\ pc = "unlock_qbuf"
    /\ usbcam_has_dqbuf' = 0
    /\ pc' = "idle"
    /\ last' = Step("UnlockQbuf", "none", "ok")
    /\ UNCHANGED <<usbcam_has_mmap, usbcam_has_fd, usbcam_has_stream,
                   store, caller, locals, device, cur, history, released>>

\* usbcam_ioctl(VIDIOC_QBUF, &usbcam_dqbuf); usbcam_has_dqbuf = 0
UnlockQbuf ==
    /\ pc = "unlock_qbuf"
    /\ usbcam_ioctl("UnlockQbuf", "QBUF",
          /\ DrvQbuf(usbcam_dqbuf.index)
          /\ usbcam_has_dqbuf' = 0
          /\ released' = released \cup {usbcam_dqbuf.index}
          /\ pc' = "idle"
          /\ last' = Step("UnlockQbuf", "QBUF", "ok")
          /\ UNCHANGED <<usbcam_has_mmap, usbcam_has_fd, usbcam_has_stream,
                         store, caller, locals, cur, history>>)

\* ------------------------------------------------------------- usbcam_lock
\* the four asserts at the head of usbcam_lock
LockPre == /\ usbcam_has_dqbuf = 0 /\ usbcam_has_fd = 1
           /\ usbcam_has_mmap = 1 /\ usbcam_has_stream = 1
\* faulty variants: one of the asserts is missing
LockPreNoDqbuf == usbcam_has_fd = 1 /\ usbcam_has_mmap = 1 /\ usbcam_has_stream = 1
LockPreNoFd == usbcam_has_dqbuf = 0

\* what the head of usbcam_lock does when Pre is what it asserts
LockEnter(ts, Pre) ==
    /\ pc = "idle"
    /\ cur' = "lock" /\ tsArg' = ts
    /\ out' = NoFrame /\ fresh' = FALSE /\ requeued' = <<>>
    /\ IF Pre
       THEN /\ pc' = "lock_dqbuf"
            /\ pending' = doneQ
            /\ last' = Step("CallLock", "none", "ok")
       ELSE /\ pc' = "exit"
            /\ pending' = <<>>
            /\ last' = Step("CallLock", "none", "assert")
    /\ UNCHANGED <<flags, store, caller, opt, i, buf, r, device, released>>

CallLockTwice(ts) == LockEnter(ts, LockPreNoDqbuf)
CallLockAnywhere(ts) == LockEnter(ts, LockPreNoFd)

\* usbcam_lock(data, size, timestamp): the asserts, then v4l2_buffer buf = {0}
CallLock(ts) == LockEnter(ts, LockPre)

\* usbcam_ioctl(VIDIOC_DQBUF, &buf), then on to the readiness check at label next
Dequeue(act, next) ==
    usbcam_ioctl(act, "DQBUF",
          /\ DrvDqbuf
          /\ r' = 1
          /\ pc' = next
          /\ last' = Step(act, "DQBUF", "ok")
          /\ UNCHANGED <<flags, store, caller, opt, i, tsArg, out, cur, history, released>>)

\* get a buffer: the first, blocking dequeue; int r = 1
LockDqbuf ==
    /\ pc = "lock_dqbuf"
    /\ Dequeue("LockDqbuf", "lock_select")

\* r = select(usbcam_fd + 1, &fds, NULL, NULL, &tv) with tv = 0: 1, 0 or -1;
\* the loop goes on only when r == 1
LockSelect ==
    /\ pc = "lock_select"
    /\ \E res \in {Readable, -1} :
          /\ r' = res
          /\ pc' = IF res = 1 THEN "lock_qbuf" ELSE "lock_return"
          /\ last' = Step("LockSelect", "select", IF res = -1 THEN "fail" ELSE "ok")
    /\ UNCHANGED <<flags, store, caller, opt, i, buf, tsArg, out, device, cur, history, released>>

\* a faulty variant: the drain loop dequeues the next buffer without requeuing the held one
LockQbufSkip ==
    /\ pc = "lock_qbuf"
    /\ pc' = "lock_dqbuf2"
    /\ last' = Step("LockQbuf", "none", "ok")
    /\ UNCHANGED <<flags, store, caller, locals, device, cur, history, released>>

\* queue the previous buffer: usbcam_ioctl(VIDIOC_QBUF, &buf)
LockQbuf ==
    /\ pc = "lock_qbuf"
    /\ usbcam_ioctl("LockQbuf", "QBUF",
          /\ DrvQbuf(buf.index)
          /\ requeued' = Record(requeued, buf.index)
          /\ pc' = "lock_dqbuf2"
          /\ last' = Step("LockQbuf", "QBUF", "ok")
          /\ UNCHANGED <<flags, store, caller, locals, cur, pending, fresh, released>>)

\* get a new buffer: usbcam_ioctl(VIDIOC_DQBUF, &buf) inside the loop
LockDqbuf2 ==
    /\ pc = "lock_dqbuf2"
    /\ Dequeue("LockDqbuf2", "lock_select")

\* faulty variants: the pointer of slot 0 whatever the index; the wrong field as
\* the timestamp
FrameOfFirstSlot(b) == [data |-> usbcam_buffer_start[0],
                        size |-> b.bytesused,
                        timestamp |-> b.timestamp]
FrameOfWrongStamp(b) == [data |-> usbcam_buffer_start[b.index],
                         size |-> b.bytesused,
                         timestamp |-> b.bytesused]

\* the three results of usbcam_lock, read off the dequeued buffer b
FrameOf(b) == [data |-> usbcam_buffer_start[b.index],
               size |-> b.bytesused,
               timestamp |-> b.timestamp]

\* a faulty variant: the frame is handed out but usbcam_dqbuf is not updated
LockReturnStale ==
    /\ pc = "lock_return"
    /\ \/ /\ tsArg = "null"
          /\ pc' = "crash"
          /\ last' = Step("LockReturn", "none", "fault")
          /\ UNCHANGED <<flags, store, out, buf, r, tsArg>>
       \/ /\ out' = IF tsArg = "null"
                    THEN [FrameOf(buf) EXCEPT !.timestamp = 0]
                    ELSE FrameOf(buf)
          /\ usbcam_dqbuf' = usbcam_dqbuf
          /\ usbcam_has_dqbuf' = 1
          /\ buf' = ZeroBuf /\ r' = 0 /\ tsArg' = "valid"
          /\ pc' = "idle"
          /\ last' = Step("LockReturn", "none", "ok")
          /\ UNCHANGED <<usbcam_has_mmap, usbcam_has_fd, usbcam_has_stream,
                         usbcam_fd, usbcam_buffers, usbcam_buffer_start,
                         usbcam_buffer_length>>
    /\ UNCHANGED <<caller, opt, i, device, cur, history, released>>

\* *timestamp = buf.timestamp; *data = ...start[buf.index]; *size = buf.bytesused;
\* usbcam_dqbuf = buf; usbcam_has_dqbuf = 1.  The timestamp argument defaults to a
\* null pointer and is written unconditionally: with a null argument the store is
\* undefined, and the build either faults there or goes on without it.
LockReturn ==
    /\ pc = "lock_return"
    /\ \/ /\ tsArg = "null"
          /\ pc' = "crash"
          /\ last' = Step("LockReturn", "none", "fault")
          /\ UNCHANGED <<flags, store, out, buf, r, tsArg>>
       \/ /\ out' = IF tsArg = "null"
                    THEN [FrameOf(buf) EXCEPT !.timestamp = 0]
                    ELSE FrameOf(buf)
          /\ usbcam_dqbuf' = buf
          /\ usbcam_has_dqbuf' = 1
          /\ buf' = ZeroBuf /\ r' = 0 /\ tsArg' = "valid"
          /\ pc' = "idle"
          /\ last' = Step("LockReturn", "none", "ok")
          /\ UNCHANGED <<usbcam_has_mmap, usbcam_has_fd, usbcam_has_stream,
                         usbcam_fd, usbcam_buffers, usbcam_buffer_start,
                         usbcam_buffer_length>>
    /\ UNCHANGED <<caller, opt, i, device, cur, history, released>>

\* ------------------------------------------------------------ the system
Next ==
    \/ \E n \in ReqBuffers : CallInit(n)
    \/ InitAssert \/ InitOpen \/ InitSfmt \/ InitReqbufs \/ InitQuerybuf
    \/ InitMmap \/ InitStreamon \/ InitQbuf
    \/ CallCleanup \/ CleanupDqbuf \/ CleanupMmap \/ CleanupStream \/ CleanupFd
    \/ \E ts \in {"valid", "null"} : CallLock(ts)
    \/ LockDqbuf \/ LockSelect \/ LockQbuf \/ LockDqbuf2 \/ LockReturn
    \/ CallUnlock \/ UnlockQbuf
    \/ DriverComplete

Spec == Init /\ [][Next]_vars

\* ------------------------------------------- usbcam_cleanup as an exit handler
\* exit(EXIT_FAILURE) runs the handlers the program registered.  usbcam_init stops
\* only through exit, so the one way usbcam_cleanup can follow a stopped usbcam_init
\* is as such a handler: it finds the statics as the failed operation left them.
AtExit ==
    /\ pc = "exit" /\ caller # "atexit"
    /\ pc' = "cleanup_dqbuf" /\ caller' = "atexit"
    /\ last' = Step("AtExit", "none", "ok")
    /\ NewCall
    /\ UNCHANGED <<flags, store, opt, i, buf, r, tsArg, device, cur>>

NextAtExit ==
    \/ Next
    \/ AtExit

SpecAtExit == Init /\ [][NextAtExit]_vars

\* --------------------------------------------- a driver that never fails
\* past MaxClock completions the driver goes on completing frames; the model
\* stops telling their capture times apart
DriverKeepsCompleting ==
    /\ pc \notin {"exit", "crash"}
    /\ drvStream /\ inQ # <<>> /\ clock = MaxClock
    /\ \E used \in 1 .. devLen :
          doneQ' = Append(doneQ, [index |-> Head(inQ), bytesused |-> used,
                                  timestamp |-> MaxClock])
    /\ inQ' = Tail(inQ)
    /\ fresh' = (fresh \/ pc \in LockPcs)
    /\ last' = Step("DriverKeepsCompleting", "none", "ok")
    /\ UNCHANGED <<flags, store, pc, caller, locals, cur, pending, requeued, released,
                   fdOpen, mapped, drvCount, drvStream, devLen, deq, clock>>

\* the step A with every call it makes succeeding
Works(A) == A /\ last'.res = "ok"

Program ==
    \/ \E n \in ReqBuffers : Works(CallInit(n))
    \/ Works(InitAssert) \/ Works(InitOpen) \/ Works(InitSfmt) \/ Works(InitReqbufs)
    \/ Works(InitQuerybuf) \/ Works(InitMmap) \/ Works(InitStreamon) \/ Works(InitQbuf)
    \/ Works(CallCleanup) \/ Works(CleanupDqbuf) \/ Works(CleanupMmap)
    \/ Works(CleanupStream) \/ Works(CleanupFd)
    \/ \E ts \in {"valid", "null"} : Works(CallLock(ts))
    \/ Works(LockDqbuf) \/ Works(LockSelect) \/ Works(LockQbuf) \/ Works(LockDqbuf2)
    \/ Works(LockReturn)
    \/ Works(CallUnlock) \/ Works(UnlockQbuf)

Driver == DriverComplete \/ DriverKeepsCompleting

NextLive == Program \/ Driver

\* the program keeps taking its next step, and the driver keeps completing the
\* buffers queued to it
SpecLive == Init /\ [][NextLive]_vars /\ WF_vars(Program) /\ WF_vars(Driver)

\* ================================================================ properties
Closed == /\ usbcam_has_mmap = 0 /\ usbcam_has_dqbuf = 0
          /\ usbcam_has_fd = 0 /\ usbcam_has_stream = 0
\* buffers the driver holds: queued for filling, or filled and waiting
DriverOwned == SeqToSet(inQ) \cup Indices(doneQ)
\* the regions the pool's descriptors name
PoolRegions == {usbcam_buffer_start[k] : k \in 0 .. (usbcam_buffers - 1)}

\* C1: in every state, the steps inside the drain loop of usbcam_lock included, at
\* most one buffer is dequeued; whenever no operation is running the dequeued
\* buffers are exactly the locked one (usbcam_has_dqbuf of them, 0 or 1).
C1_SingleDequeued ==
    /\ Cardinality(deq) <= 1
    /\ pc = "idle" =>
          /\ Cardinality(deq) = usbcam_has_dqbuf
          /\ usbcam_has_dqbuf = 1 => deq = {usbcam_dqbuf.index}

\* C1 witness: inside the drain loop, after a requeue and the next dequeue
C1_InDrainLoop ==
    /\ pc = "lock_select" /\ requeued # <<>>
    /\ Cardinality(deq) = 1 /\ usbcam_has_dqbuf = 0

\* C2: when usbcam_lock returns and N >= 1 frames were complete at the call and
\* none was completed during it, the frame returned is the Nth completion and
\* the first N-1 buffers were requeued, in order.
C2_DrainToLatest ==
    (pc = "idle" /\ last.act = "LockReturn" /\ Len(pending) >= 1 /\ ~fresh) =>
        /\ usbcam_dqbuf = pending[Len(pending)]
        /\ out.data = usbcam_buffer_start[pending[Len(pending)].index]
        /\ requeued = [k \in 1 .. (Len(pending) - 1) |-> pending[k].index]

\* The same, for the calls whose readiness checks all answered 1 or 0: at the end
\* of the loop the held buffer is the Nth completion, the others were requeued.
DrainToLatestWhenPollAnswers ==
    (pc = "lock_return" /\ r = 0 /\ Len(pending) >= 1 /\ ~fresh) =>
        /\ buf = pending[Len(pending)]
        /\ requeued = [k \in 1 .. (Len(pending) - 1) |-> pending[k].index]

\* C3: usbcam_lock called while a frame is locked ends in exit(): the call makes no
\* primitive call, no buffer changes hands, no flag changes, no frame is handed out.
C3_DoubleLockFatal ==
    [][(pc = "idle" /\ last'.act = "CallLock" /\ usbcam_has_dqbuf = 1) =>
          /\ pc' = "exit"
          /\ last'.prim = "none"
          /\ out' = NoFrame
          /\ UNCHANGED <<flags, store, device>>]_vars

\* C3 witness: the process has exited in the second usbcam_lock, frame still locked
C3_SecondLockExited ==
    /\ pc = "exit" /\ last = Step("CallLock", "none", "assert")
    /\ usbcam_has_dqbuf = 1 /\ deq = {usbcam_dqbuf.index}

\* C4: a dequeue is issued only with the device open, the pool mapped, streaming on
\* and no frame locked; usbcam_lock called in any other state ends in exit() without
\* a primitive call.
C4_LockPreconditions ==
    /\ [][(pc = "idle" /\ last'.act = "CallLock"
           /\ ~(usbcam_has_dqbuf = 0 /\ usbcam_has_fd = 1
                /\ usbcam_has_mmap = 1 /\ usbcam_has_stream = 1)) =>
             /\ pc' = "exit"
             /\ last'.prim = "none"
             /\ UNCHANGED <<flags, store, device>>]_vars
    /\ [][(last'.prim = "DQBUF") =>
             /\ usbcam_has_dqbuf = 0 /\ usbcam_has_fd = 1
             /\ usbcam_has_mmap = 1 /\ usbcam_has_stream = 1
             /\ fdOpen /\ drvStream]_vars

\* C4 witness: usbcam_lock after usbcam_cleanup of an opened session has exited
C4_LockAfterCleanupExited ==
    /\ pc = "exit" /\ last = Step("CallLock", "none", "assert")
    /\ Closed /\ usbcam_fd = DeviceFd /\ ~fdOpen

\* C5: usbcam_cleanup never ends in exit(), and when it returns all four flags
\* are clear.
C5_CleanupNeverFails ==
    cur = "cleanup" =>
        /\ pc # "exit"
        /\ pc = "idle" => Closed

\* C6: a step of usbcam_cleanup taken with no flag set makes no primitive call and
\* changes neither the module's statics nor the device.
C6_CleanupIdempotent ==
    [][(Closed /\ last'.act \in {"CallCleanup", "CleanupDqbuf", "CleanupMmap",
                                 "CleanupStream", "CleanupFd"}
        /\ pc \in {"idle", "cleanup_dqbuf", "cleanup_mmap", "cleanup_stream",
                   "cleanup_fd"}) =>
          /\ last'.prim = "none"
          /\ pc' # "exit"
          /\ UNCHANGED <<flags, store, device>>]_vars

\* C6 witness: usbcam_cleanup has returned without a call, after an earlier
\* usbcam_cleanup had closed a session
C6_SecondCleanupReturned ==
    /\ pc = "idle" /\ cur = "cleanup" /\ last = Step("CleanupFd", "none", "ok")
    /\ usbcam_fd = DeviceFd /\ Closed

\* what the four operations can tell apart: the flags each of them tests first, and
\* the resources held outside the module (handle, regions, driver pool and queues)
Observable == <<flags, fdOpen, mapped, drvCount, drvStream, inQ, doneQ, deq>>
NeverInitialized == <<<<0, 0, 0, 0>>, FALSE, {}, 0, FALSE, <<>>, <<>>, {}>>

\* C7: once usbcam_cleanup has returned, the observable state is that of a session
\* that was never initialized.
C7_InitCleanupRoundTrip ==
    (pc = "idle" /\ cur = "cleanup") => Observable = NeverInitialized

\* C7 witness: usbcam_cleanup right after a successful usbcam_init of MaxBuffers
\* buffers (no frame was ever locked, the driver completed nothing)
C7_CleanedRightAfterInit ==
    /\ pc = "idle" /\ cur = "cleanup" /\ last = Step("CleanupFd", "close", "ok")
    /\ usbcam_buffers = MaxBuffers /\ usbcam_dqbuf = ZeroBuf /\ clock = 0

\* C8: usbcam_init reaches its own work only after a full cleanup (nothing locked,
\* every old region unmapped, stream off, handle closed), and when it returns the
\* session is streaming, unlocked, exactly opt.buffers regions are mapped and every
\* buffer of the pool is with the driver.
C8_Reinit ==
    /\ (caller = "init" /\ pc = "cleanup_stream") => mapped = {}
    /\ pc = "init_assert" =>
          /\ Closed
          /\ ~fdOpen /\ mapped = {} /\ ~drvStream /\ deq = {}
    /\ (pc = "idle" /\ cur = "init") =>
          /\ usbcam_has_fd = 1 /\ usbcam_has_mmap = 1
          /\ usbcam_has_stream = 1 /\ usbcam_has_dqbuf = 0
          /\ fdOpen /\ drvStream
          /\ usbcam_buffers = opt /\ drvCount = opt
          /\ mapped = PoolRegions /\ Cardinality(mapped) = opt
          /\ DriverOwned = 0 .. (opt - 1) /\ deq = {}

\* C8 witness: usbcam_init of one buffer has returned; it was called on a session
\* of two buffers with a frame locked, which its cleanup requeued
C8_ReinitSmaller ==
    /\ pc = "idle" /\ cur = "init"
    /\ usbcam_buffers = 1 /\ usbcam_buffer_start[1] \in Addrs
    /\ requeued # <<>>

\* C9: usbcam_unlock with no frame locked returns at once: no primitive call, no
\* change to the statics or to the device; and a requeue by usbcam_unlock is issued
\* only for the locked buffer and, when it succeeds, clears the lock.
C9_UnlockNoop ==
    /\ [][(pc = "idle" /\ last'.act = "CallUnlock" /\ usbcam_has_dqbuf = 0) =>
             /\ pc' = "idle"
             /\ last'.prim = "none"
             /\ UNCHANGED <<flags, store, device, released>>]_vars
    /\ [][(last'.act = "UnlockQbuf") =>
             /\ usbcam_has_dqbuf = 1 /\ deq = {usbcam_dqbuf.index}
             /\ last'.prim = "QBUF"
             /\ last'.res = "ok" => usbcam_has_dqbuf' = 0]_vars

\* C9 witness: a second usbcam_unlock after a lock/unlock cycle has returned
C9_SecondUnlockReturned ==
    /\ pc = "idle" /\ last.act = "CallUnlock"
    /\ usbcam_has_dqbuf = 0 /\ usbcam_has_stream = 1
    /\ released # {} /\ deq = {}

\* C10: a successful usbcam_unlock leaves the buffer that was locked in the driver's
\* incoming queue; and while streaming with no operation running every buffer of the
\* pool is with the driver or is the locked one.
C10_RoundTrip ==
    /\ [][(last'.act = "UnlockQbuf" /\ last'.res = "ok") =>
             /\ usbcam_dqbuf.index \in SeqToSet(inQ')
             /\ usbcam_dqbuf.index \notin deq'
             /\ DriverOwned' = 0 .. (usbcam_buffers - 1)]_vars
    /\ [](pc = "idle" /\ usbcam_has_stream = 1 =>
             DriverOwned \cup deq = 0 .. (usbcam_buffers - 1))

\* C10 witness: usbcam_lock has returned a buffer that usbcam_unlock gave back
\* earlier in the same streaming session
C10_ReleasedBufferLockedAgain ==
    /\ pc = "idle" /\ last.act = "LockReturn"
    /\ usbcam_has_dqbuf = 1 /\ usbcam_dqbuf.index \in released

\* C11: when usbcam_lock has returned, and for as long as the frame stays locked,
\* the locked index is an index of the pool, the pointer handed out is the base of
\* that buffer's region and the region is mapped, and the size handed out is the
\* driver's used-byte count and does not exceed the length recorded for that index.
C11_FrameInsidePool ==
    /\ (pc = "idle" /\ usbcam_has_dqbuf = 1) =>
          /\ usbcam_dqbuf.index \in 0 .. (usbcam_buffers - 1)
          /\ usbcam_buffer_start[usbcam_dqbuf.index] \in mapped
          /\ usbcam_dqbuf.bytesused <= usbcam_buffer_length[usbcam_dqbuf.index]
    /\ (pc = "idle" /\ last.act = "LockReturn") =>
          /\ usbcam_has_dqbuf = 1
          /\ out.data = usbcam_buffer_start[usbcam_dqbuf.index]
          /\ out.size = usbcam_dqbuf.bytesused

\* C11 witness: usbcam_lock has returned the second buffer of the pool, full
C11_FullSecondBuffer ==
    /\ pc = "idle" /\ last.act = "LockReturn"
    /\ usbcam_dqbuf.index = 1 /\ out.size = usbcam_buffer_length[1]

\* C12: a usbcam_lock that returns hands out the capture time of the buffer it
\* locks, and that time is not earlier than the time of the frame locked before
\* it in the same streaming session.
C12_TimestampsNeverDecrease ==
    [][(pc = "lock_return" /\ pc' = "idle" /\ tsArg = "valid") =>
          /\ out'.timestamp = usbcam_dqbuf'.timestamp
          /\ released # {} => out'.timestamp >= usbcam_dqbuf.timestamp]_vars

\* C12 witness: a second usbcam_lock of the session has returned a frame with the
\* same capture time as the first
C12_SecondFrameSameTime ==
    /\ pc = "idle" /\ last.act = "LockReturn"
    /\ released # {} /\ out.timestamp = 1 /\ clock = 2

\* C13: when the readiness check of the drain loop reports an error (select()
\* returns -1), usbcam_lock does not return a frame and does not set
\* usbcam_has_dqbuf.
C13_PollErrorIsFatal ==
    [][(pc = "lock_return" /\ r = -1) =>
          ~(pc' = "idle" /\ usbcam_has_dqbuf' = 1)]_vars

\* C14: a primitive call (open, mmap, any ioctl) that fails with EINTR or EAGAIN
\* is made again; such a transient result never ends the operation in the fatal
\* state.
C14_TransientNeverFatal ==
    (last.res = "retry" /\ last.prim \in {"open", "mmap"} \cup ReqNames) => pc # "exit"

\* the buffer and stream operations: the ioctl requests, munmap and select
StreamOps == ReqNames \cup {"munmap", "select"}

\* C15: no buffer or stream operation (QBUF, DQBUF, STREAMON, STREAMOFF, S_FMT,
\* REQBUFS, QUERYBUF, munmap, select) is issued while usbcam_has_fd = 0: the step
\* that issues one starts and ends with the flag set and the descriptor open.
\* None of these steps changes the flag, so the state after the step decides it.
C15_NoOperationWhileClosed ==
    (last.prim \in StreamOps) => (usbcam_has_fd = 1 /\ fdOpen)

\* C15 witness: usbcam_unlock was called on a session that had streamed and was
\* closed again, and it returned without issuing anything
C15_UnlockWhileClosed ==
    /\ pc = "idle" /\ cur = "unlock" /\ last = Step("CallUnlock", "none", "ok")
    /\ usbcam_has_fd = 0 /\ clock > 0

\* C16: usbcam_cleanup unwinds in the reverse of the order the flags are set (fd,
\* mmap, stream, dqbuf): when it disables streaming no frame is locked any more,
\* when it unmaps the pool streaming is already off and no frame is locked, and
\* when it closes the device the three other flags are clear.
C16_ReverseOrderTeardown ==
    /\ last = Step("CleanupStream", "STREAMOFF", "ok") => usbcam_has_dqbuf = 0
    /\ last = Step("CleanupMmap", "munmap", "ok") =>
          usbcam_has_stream = 0 /\ usbcam_has_dqbuf = 0
    /\ last = Step("CleanupFd", "close", "ok") =>
          usbcam_has_mmap = 0 /\ usbcam_has_stream = 0 /\ usbcam_has_dqbuf = 0

\* C17: when usbcam_init has stopped after the device was opened and
\* usbcam_cleanup then runs to its end, no region is mapped and no descriptor is
\* open.
C17_PartialInitTeardown ==
    (pc = "gone" /\ cur = "init") => (mapped = {} /\ ~fdOpen)

\* C18: on a streaming session with a driver that never fails and keeps
\* completing frames, a usbcam_lock that was called with a timestamp pointer
\* eventually returns a frame.
C18_LockReturns ==
    (pc = "lock_dqbuf" /\ tsArg = "valid") ~> (pc = "idle" /\ last.act = "LockReturn")

\* with a pool of one buffer it does: nothing can complete while the one buffer
\* is held
LockReturnsWithOneBuffer ==
    (pc = "lock_dqbuf" /\ tsArg = "valid" /\ usbcam_buffers = 1)
        ~> (pc = "idle" /\ last.act = "LockReturn")

\* C19: whenever no operation is running the flags are nested: usbcam_has_dqbuf
\* implies usbcam_has_stream, which implies usbcam_has_mmap, which implies
\* usbcam_has_fd; and in every state in which a frame is locked the pool is mapped
\* and the region of the locked buffer is among the mapped ones.
C19_FlagsNested ==
    /\ pc = "idle" =>
          /\ usbcam_has_dqbuf = 1 => usbcam_has_stream = 1
          /\ usbcam_has_stream = 1 => usbcam_has_mmap = 1
          /\ usbcam_has_mmap = 1 => (usbcam_has_fd = 1 /\ fdOpen)
    /\ usbcam_has_dqbuf = 1 =>
          /\ usbcam_has_mmap = 1
          /\ usbcam_buffer_start[usbcam_dqbuf.index] \in mapped

\* C19 witness: between two operations, all four flags set, the locked frame in
\* the pool's second region, and an usbcam_unlock and usbcam_lock behind it
C19_LockedInSecondRegion ==
    /\ pc = "idle" /\ usbcam_has_dqbuf = 1 /\ usbcam_has_stream = 1
    /\ usbcam_has_mmap = 1 /\ usbcam_has_fd = 1
    /\ usbcam_buffer_start[usbcam_dqbuf.index] = 2 /\ released # {}

\* the buffer a VIDIOC_QBUF issued from the current place names: the loop index in
\* usbcam_init, the local buf in the drain loop, usbcam_dqbuf in usbcam_unlock
\* and usbcam_cleanup
QbufTarget ==
    CASE pc = "init_qbuf" -> i
      [] pc = "lock_qbuf" -> buf.index
      [] OTHER -> usbcam_dqbuf.index

\* C20: while streaming with no operation running, the driver owns exactly
\* usbcam_buffers - usbcam_has_dqbuf buffers of the pool and none of them is
\* dequeued; and every VIDIOC_QBUF the module issues, whatever its outcome, names a
\* buffer the driver does not own: in the drain loop, usbcam_unlock and
\* usbcam_cleanup it is the one dequeued buffer, and in usbcam_unlock and
\* usbcam_cleanup that is the buffer the last usbcam_lock returned.
C20_BufferConservation ==
    /\ [](pc = "idle" /\ usbcam_has_stream = 1 =>
             /\ DriverOwned \subseteq 0 .. (usbcam_buffers - 1)
             /\ Cardinality(DriverOwned) = usbcam_buffers - usbcam_has_dqbuf
             /\ DriverOwned \cap deq = {})
    /\ [][(last'.prim = "QBUF") =>
             /\ QbufTarget \notin DriverOwned
             /\ pc # "init_qbuf" => deq = {QbufTarget}
             /\ pc \in {"unlock_qbuf", "cleanup_dqbuf"} =>
                   usbcam_has_dqbuf = 1
             /\ last'.res = "ok" => inQ' = Append(inQ, QbufTarget)]_vars

\* C20 witness: usbcam_cleanup has requeued the locked buffer, the second of the
\* pool, after the drain loop of an earlier usbcam_lock requeued one as well
C20_CleanupRequeuedSecond ==
    /\ last = Step("CleanupDqbuf", "QBUF", "ok")
    /\ usbcam_dqbuf.index = 1 /\ 1 \in SeqToSet(inQ) /\ released # {}

====
